---------------------------- MODULE Spec2Model ----------------------------
(***************************************************************************)
(* Model of package errors of sudo-suhas/xgo: the Error value, the         *)
(* functional options consumed by E, field promotion, and the read-only    *)
(* accessors that walk the cause chain.                                    *)
(*                                                                         *)
(* Go pointers are modelled by a heap: a sequence of Error records whose   *)
(* index is the address of the record.  An error interface value is a      *)
(* tagged record: nil, a *Error (an address), or a foreign error.          *)
(***************************************************************************)
EXTENDS Naturals, Sequences, FiniteSets, TLC

(***************************************************************************)
(* Bounds of the model.                                                    *)
(***************************************************************************)
\* Number of E calls in one run of the wrapping program.
MaxCalls == 3
\* Longest option list of the single call of the option-list program.
MaxOpts == 3
\* Largest number of ErrObservers registered with the JSONResponder.
MaxObservers == 2

(***************************************************************************)
(* Kind (kind.go).                                                         *)
(***************************************************************************)
Kind(code, status) == [Code |-> code, Status |-> status]

Unknown == Kind("", 0)

StatusNotFound == 404

StatusInternalServerError == 500

StatusConflict == 409

NotFound == Kind("NOT_FOUND", StatusNotFound)

Internal == Kind("INTERNAL", StatusInternalServerError)

\* k := errors.Kind{Code: "CONFLICT"}: a kind declared by application code,
\* with no status.
CustomKind == Kind("CONFLICT", 0)

\* strings.Split(code, "_") on the codes of the kinds used here.
SplitCode(code) ==
    CASE code = "NOT_FOUND" -> <<"NOT", "FOUND">>
      [] code = "INTERNAL" -> <<"INTERNAL">>
      [] OTHER -> <<code>>

\* strings.ToLower on the words of those codes; lowering the joined string
\* lowers each word and leaves the separator as it is.
ToLower(s) ==
    CASE s = "NOT" -> "not"
      [] s = "FOUND" -> "found"
      [] s = "INTERNAL" -> "internal"
      [] s = "CONFLICT" -> "conflict"
      [] OTHER -> s

RECURSIVE Join(_, _)
\* strings.Join(elems, sep)
Join(elems, sep) ==
    IF elems = <<>> THEN ""
    ELSE IF Len(elems) = 1 THEN Head(elems)
    ELSE Head(elems) \o sep \o Join(Tail(elems), sep)

\* func (k Kind) String() string
KindString(k) ==
    CASE k = Unknown -> "unknown error"
      [] k = Internal -> "internal error"
      [] OTHER -> Join([i \in 1..Len(SplitCode(k.Code)) |->
                           ToLower(SplitCode(k.Code)[i])], " ")

(***************************************************************************)
(* Error interface values and the Error struct (errors.go).                *)
(***************************************************************************)
\* The nil error.
NilErr == [tag |-> "nil", addr |-> 0, text |-> ""]

\* A *Error: the address of a heap record.
Ptr(a) == [tag |-> "ptr", addr |-> a, text |-> ""]

\* errors.New(text): a foreign error with no Unwrap and no GetKind.
New(text) == [tag |-> "new", addr |-> 0, text |-> text]

\* MyError{}: a foreign error with GetKind and StatusCode, Error() = "e".
MyError == [tag |-> "my", addr |-> 0, text |-> "e"]

\* fmt.Errorf("nested: %w", p): a foreign wrapper whose Unwrap() is p.
Errorf(a) == [tag |-> "errorf", addr |-> a, text |-> "nested: "]

IsError(err) == err.tag = "ptr"

\* interface{} holding nothing / func value nil.
NilData == <<>>

NilJSON == "nil"

\* var e Error: the zero value of the struct.
Error ==
    [Op |-> "", Kind |-> Unknown, Text |-> "", UserMsg |-> "",
     Data |-> NilData, Err |-> NilErr, ToJSON |-> NilJSON]

(***************************************************************************)
(* Options (options.go).  An option is a record naming its constructor;    *)
(* its argument travels in the matching field of an Error-shaped record f, *)
(* and the members of an Options(...) list in sub.                         *)
(***************************************************************************)
Opt(name, f, sub) == [opt |-> name, f |-> f, sub |-> sub]

WithOp(op) == Opt("WithOp", [Error EXCEPT !.Op = op], <<>>)

KindOpt(k) == Opt("Kind", [Error EXCEPT !.Kind = k], <<>>)

WithText(text) == Opt("WithText", [Error EXCEPT !.Text = text], <<>>)

WithUserMsg(msg) == Opt("WithUserMsg", [Error EXCEPT !.UserMsg = msg], <<>>)

WithData(data) == Opt("WithData", [Error EXCEPT !.Data = <<data>>], <<>>)

WithToJSON(f) == Opt("WithToJSON", [Error EXCEPT !.ToJSON = f], <<>>)

WithErr(err) == Opt("WithErr", [Error EXCEPT !.Err = err], <<>>)

Fields(f) == Opt("Fields", f, <<>>)

Options(opts) == Opt("Options", Error, opts)

\* Variant of Fields.Apply that assigns every field of f, zero or not.
FieldsApplyAll(f, e) == f

\* func (f Fields) Apply(e *Error): only the non-zero fields of f are set,
\* and f.Err is stored as it is.
FieldsApply(f, e) ==
    LET e1 == IF f.Op # "" THEN [e EXCEPT !.Op = f.Op] ELSE e
        e2 == IF f.Kind # Unknown THEN [e1 EXCEPT !.Kind = f.Kind] ELSE e1
        e3 == IF f.Text # "" THEN [e2 EXCEPT !.Text = f.Text] ELSE e2
        e4 == IF f.UserMsg # "" THEN [e3 EXCEPT !.UserMsg = f.UserMsg] ELSE e3
        e5 == IF f.Data # NilData THEN [e4 EXCEPT !.Data = f.Data] ELSE e4
        e6 == IF f.Err # NilErr THEN [e5 EXCEPT !.Err = f.Err] ELSE e5
        e7 == IF f.ToJSON # NilJSON THEN [e6 EXCEPT !.ToJSON = f.ToJSON] ELSE e6
    IN  e7

\* Variant of WithErrApply that stores the caller's pointer without copying.
WithErrNoCopy(h, e, err) == [h |-> h, e |-> [e EXCEPT !.Err = err]]

\* The closure returned by WithErr(err): a *Error is copied to a fresh heap
\* record and the copy is stored; any other error is stored as it is.
\* The result is the heap and the Error under construction.
WithErrApply(h, e, err) ==
    IF IsError(err)
    THEN [h |-> Append(h, h[err.addr]), e |-> [e EXCEPT !.Err = Ptr(Len(h) + 1)]]
    ELSE [h |-> h, e |-> [e EXCEPT !.Err = err]]

RECURSIVE Apply(_, _, _)
RECURSIVE ApplyAll(_, _, _)
\* opt.Apply(&e) for each kind of Option.
Apply(h, e, o) ==
    CASE o.opt = "WithOp" -> [h |-> h, e |-> [e EXCEPT !.Op = o.f.Op]]
      [] o.opt = "Kind" -> [h |-> h, e |-> [e EXCEPT !.Kind = o.f.Kind]]
      [] o.opt = "WithText" -> [h |-> h, e |-> [e EXCEPT !.Text = o.f.Text]]
      [] o.opt = "WithUserMsg" -> [h |-> h, e |-> [e EXCEPT !.UserMsg = o.f.UserMsg]]
      [] o.opt = "WithData" -> [h |-> h, e |-> [e EXCEPT !.Data = o.f.Data]]
      [] o.opt = "WithToJSON" -> [h |-> h, e |-> [e EXCEPT !.ToJSON = o.f.ToJSON]]
      [] o.opt = "WithErr" -> WithErrApply(h, e, o.f.Err)
      [] o.opt = "Fields" -> [h |-> h, e |-> FieldsApply(o.f, e)]
      [] o.opt = "Options" -> ApplyAll(h, e, o.sub)

RECURSIVE ApplyAllReversed(_, _, _)
\* Variant of ApplyAll that applies the options last to first.
ApplyAllReversed(h, e, opts) ==
    IF opts = <<>> THEN [h |-> h, e |-> e]
    ELSE LET r == ApplyAllReversed(h, e, Tail(opts))
         IN  Apply(r.h, r.e, Head(opts))

\* for _, opt := range opts { opt.Apply(&e) }
ApplyAll(h, e, opts) ==
    IF opts = <<>> THEN [h |-> h, e |-> e]
    ELSE LET r == Apply(h, e, Head(opts))
         IN  ApplyAll(r.h, r.e, Tail(opts))

(***************************************************************************)
(* Field promotion (errors.go).                                            *)
(***************************************************************************)
\* func (e *Error) isZero() bool
isZero(e) ==
    /\ e.Op = ""
    /\ e.Kind = Unknown
    /\ e.Text = ""
    /\ e.Err = NilErr
    /\ e.UserMsg = ""
    /\ e.Data = NilData
    /\ e.ToJSON = NilJSON

\* func hasOnlyErr(e Error) bool
hasOnlyErr(e) == isZero([e EXCEPT !.Err = NilErr])

\* Variant of Suppress that leaves a duplicate op in prev.
SuppressButOp(e, prev) ==
    LET p2 == IF prev.Kind = e.Kind THEN [prev EXCEPT !.Kind = Unknown] ELSE prev
        p3 == IF p2.UserMsg = e.UserMsg THEN [p2 EXCEPT !.UserMsg = ""] ELSE p2
        p4 == IF p3.Text = e.Text THEN [p3 EXCEPT !.Text = ""] ELSE p3
    IN  p4

\* Variant of Suppress that clears nothing.
SuppressNothing(e, prev) == prev

\* Suppress duplications: the four comparisons that clear fields of prev.
Suppress(e, prev) ==
    LET p1 == IF e.Op = prev.Op THEN [prev EXCEPT !.Op = ""] ELSE prev
        p2 == IF p1.Kind = e.Kind THEN [p1 EXCEPT !.Kind = Unknown] ELSE p1
        p3 == IF p2.UserMsg = e.UserMsg THEN [p2 EXCEPT !.UserMsg = ""] ELSE p2
        p4 == IF p3.Text = e.Text THEN [p3 EXCEPT !.Text = ""] ELSE p3
    IN  p4

\* Variant of PullUp that pulls nothing up.
PullUpNothing(e, prev) == [e |-> e, prev |-> prev]

\* Variant of PullUp that copies the fields of prev and leaves prev alone.
PullUpCopies(e, prev) ==
    [e |-> [e EXCEPT !.Op = IF e.Op = "" THEN prev.Op ELSE e.Op,
                     !.Kind = IF e.Kind = Unknown THEN prev.Kind ELSE e.Kind,
                     !.UserMsg = IF e.UserMsg = "" THEN prev.UserMsg ELSE e.UserMsg,
                     !.Data = IF e.Data = NilData THEN prev.Data ELSE e.Data,
                     !.ToJSON = IF e.ToJSON = NilJSON THEN prev.ToJSON ELSE e.ToJSON],
     prev |-> prev]

\* Variant of PullUp that leaves ToJSON where it is.
PullUpNoJSON(e, prev) ==
    LET s1 == IF e.Op = ""
              THEN [e |-> [e EXCEPT !.Op = prev.Op],
                    prev |-> [prev EXCEPT !.Op = ""]]
              ELSE [e |-> e, prev |-> prev]
        s2 == IF s1.e.Kind = Unknown
              THEN [e |-> [s1.e EXCEPT !.Kind = s1.prev.Kind],
                    prev |-> [s1.prev EXCEPT !.Kind = Unknown]]
              ELSE s1
        s3 == IF s2.e.UserMsg = ""
              THEN [e |-> [s2.e EXCEPT !.UserMsg = s2.prev.UserMsg],
                    prev |-> [s2.prev EXCEPT !.UserMsg = ""]]
              ELSE s2
        s4 == IF s3.e.Data = NilData
              THEN [e |-> [s3.e EXCEPT !.Data = s3.prev.Data],
                    prev |-> [s3.prev EXCEPT !.Data = NilData]]
              ELSE s3
    IN  s4

\* Pull up Op/Kind/UserMsg/Data/ToJSON: the five swaps with the zero value.
\* The result is the pair of e and prev.
PullUp(e, prev) ==
    LET s1 == IF e.Op = ""
              THEN [e |-> [e EXCEPT !.Op = prev.Op],
                    prev |-> [prev EXCEPT !.Op = ""]]
              ELSE [e |-> e, prev |-> prev]
        s2 == IF s1.e.Kind = Unknown
              THEN [e |-> [s1.e EXCEPT !.Kind = s1.prev.Kind],
                    prev |-> [s1.prev EXCEPT !.Kind = Unknown]]
              ELSE s1
        s3 == IF s2.e.UserMsg = ""
              THEN [e |-> [s2.e EXCEPT !.UserMsg = s2.prev.UserMsg],
                    prev |-> [s2.prev EXCEPT !.UserMsg = ""]]
              ELSE s2
        s4 == IF s3.e.Data = NilData
              THEN [e |-> [s3.e EXCEPT !.Data = s3.prev.Data],
                    prev |-> [s3.prev EXCEPT !.Data = NilData]]
              ELSE s3
        s5 == IF s4.e.ToJSON = NilJSON
              THEN [e |-> [s4.e EXCEPT !.ToJSON = s4.prev.ToJSON],
                    prev |-> [s4.prev EXCEPT !.ToJSON = NilJSON]]
              ELSE s4
    IN  s5

\* Variant of Guarded that never returns early.
NeverGuarded(prev) == FALSE

\* The early return of promoteFields: prev keeps an Op or a Kind.
Guarded(prev) == prev.Op # "" \/ prev.Kind # Unknown

\* Variant of Collapse that moves the text and keeps prev as the cause.
CollapseKeepsCause(e, prev) ==
    IF e.Text = ""
    THEN [e |-> [e EXCEPT !.Text = prev.Text], prev |-> [prev EXCEPT !.Text = ""]]
    ELSE [e |-> e, prev |-> prev]

\* The tail of promoteFields after the guard: Text moves up when e has
\* none, then a zero prev is dropped and a prev holding only its Err is
\* skipped.
Collapse(e, prev) ==
    LET s == IF e.Text = ""
             THEN [e |-> [e EXCEPT !.Text = prev.Text],
                   prev |-> [prev EXCEPT !.Text = ""]]
             ELSE [e |-> e, prev |-> prev]
        e2 == IF isZero(s.prev) THEN [s.e EXCEPT !.Err = NilErr]
              ELSE IF hasOnlyErr(s.prev) THEN [s.e EXCEPT !.Err = s.prev.Err]
              ELSE s.e
    IN  [e |-> e2, prev |-> s.prev]

\* Variant of promoteFields that goes on to promote between prev and the
\* cause of prev.
promoteFieldsDeep(h, e) ==
    LET Once(hh, ee) ==
            IF ~IsError(ee.Err) THEN [h |-> hh, e |-> ee]
            ELSE LET a == ee.Err.addr
                     s == PullUp(ee, Suppress(ee, hh[a]))
                     t == IF Guarded(s.prev) THEN s ELSE Collapse(s.e, s.prev)
                 IN  [h |-> [hh EXCEPT ![a] = t.prev], e |-> t.e]
    IN  IF ~IsError(e.Err) THEN [h |-> h, e |-> e]
        ELSE LET a == e.Err.addr
                 outer == Once(h, e)
                 inner == Once(outer.h, outer.h[a])
             IN  [h |-> [inner.h EXCEPT ![a] = inner.e], e |-> outer.e]

\* func (e *Error) promoteFields(): prev is the record e.Err points to and
\* is written in place.
promoteFields(h, e) ==
    IF ~IsError(e.Err) THEN [h |-> h, e |-> e]
    ELSE LET a == e.Err.addr
             s == PullUp(e, Suppress(e, h[a]))
             t == IF Guarded(s.prev) THEN s ELSE Collapse(s.e, s.prev)
         IN  [h |-> [h EXCEPT ![a] = t.prev], e |-> t.e]

\* func E(opt Option, opts ...Option) error: the heap after the call; the
\* returned *Error is its last record.
E(h, opts) ==
    LET r == ApplyAll(h, Error, opts)
        p == promoteFields(r.h, r.e)
    IN  Append(p.h, p.e)

(***************************************************************************)
(* Rendering and chain-walking accessors (errors.go, kind.go).             *)
(***************************************************************************)
\* pad appends str to the buffer if the buffer already has some data.
pad(b, str) == IF b = "" THEN b ELSE b \o str

\* func writePaddedStr(b *bytes.Buffer, s string): the buffer afterwards.
writePaddedStr(b, s) == IF s = "" THEN b ELSE pad(b, ": ") \o s

RECURSIVE ErrorString(_, _)
\* err.Error() of a non-nil error value; for a *Error it is
\* func (e *Error) Error() string.
ErrorString(h, err) ==
    CASE err.tag = "ptr" ->
           LET e == h[err.addr]
               b1 == writePaddedStr("", e.Op)
               b2 == IF e.Kind # Unknown THEN writePaddedStr(b1, KindString(e.Kind))
                     ELSE b1
               b3 == writePaddedStr(b2, e.Text)
               b4 == IF e.Err # NilErr THEN writePaddedStr(b3, ErrorString(h, e.Err))
                     ELSE b3
           IN  IF b4 = "" THEN "no error" ELSE b4
      [] err.tag = "errorf" -> err.text \o ErrorString(h, Ptr(err.addr))
      [] OTHER -> err.text

\* Variant of walk that stops after the first record.
walkFirst(h, a) == <<h[a]>>

RECURSIVE walk(_, _)
\* func walk(e *Error, f func(*Error)): the records f is called with, in
\* the order of the calls.
walk(h, a) ==
    IF IsError(h[a].Err) THEN <<h[a]>> \o walk(h, h[a].Err.addr) ELSE <<h[a]>>

RECURSIVE CollectOps(_)
\* The callback of Ops applied along the walk: ops = append(ops, err.Op)
\* for each record with an Op.
CollectOps(layers) ==
    IF layers = <<>> THEN <<>>
    ELSE IF Head(layers).Op # "" THEN <<Head(layers).Op>> \o CollectOps(Tail(layers))
    ELSE CollectOps(Tail(layers))

\* func (e *Error) Ops() []xgo.Op
Ops(h, a) == CollectOps(walk(h, a))

\* errors.Unwrap(err): the Unwrap method of a *Error and of the fmt.Errorf
\* wrapper; nil for errors without one.
Unwrap(h, err) ==
    CASE err.tag = "ptr" -> h[err.addr].Err
      [] err.tag = "errorf" -> Ptr(err.addr)
      [] OTHER -> NilErr

\* err.(GetKind): *Error and MyError implement GetKind.
HasGetKind(err) == err.tag \in {"ptr", "my"}

\* e.GetKind() for an err with HasGetKind.
GetKind(h, err) == IF err.tag = "ptr" THEN h[err.addr].Kind ELSE Internal

\* Variant of WhatKind that does not unwrap.
WhatKindTop(h, err) ==
    IF err = NilErr THEN Unknown
    ELSE IF HasGetKind(err) THEN GetKind(h, err)
    ELSE Unknown

RECURSIVE WhatKind(_, _)
\* func WhatKind(err error) Kind
WhatKind(h, err) ==
    IF err = NilErr THEN Unknown
    ELSE IF HasGetKind(err) /\ GetKind(h, err) # Unknown THEN GetKind(h, err)
    ELSE WhatKind(h, Unwrap(h, err))

\* MyError.StatusCode() returns http.StatusForbidden.
StatusForbidden == 403

\* func (e *Error) StatusCode() int
ErrorStatusCode(e) == IF e.Kind # Unknown THEN e.Kind.Status ELSE 0

\* err.(StatusCoder): *Error and MyError implement StatusCoder.
HasStatusCoder(err) == err.tag \in {"ptr", "my"}

\* e.StatusCode() for an err with HasStatusCoder.
StatusCoderCode(h, err) ==
    IF err.tag = "ptr" THEN ErrorStatusCode(h[err.addr]) ELSE StatusForbidden

\* Variant of StatusCode that returns whatever the first StatusCoder says.
StatusCodeFirst(h, err) ==
    IF err = NilErr THEN StatusInternalServerError
    ELSE IF HasStatusCoder(err) THEN StatusCoderCode(h, err)
    ELSE StatusInternalServerError

RECURSIVE StatusCode(_, _)
\* func StatusCode(err error) int
StatusCode(h, err) ==
    IF err = NilErr THEN StatusInternalServerError
    ELSE IF HasStatusCoder(err) /\ StatusCoderCode(h, err) # 0
    THEN StatusCoderCode(h, err)
    ELSE StatusCode(h, Unwrap(h, err))

\* Variant of UserMsg that looks at the outermost error only.
UserMsgTop(h, err) == IF IsError(err) THEN h[err.addr].UserMsg ELSE ""

\* Variant of UserMsg that falls back on the text of the outermost Error.
UserMsgOrText(h, err) ==
    IF IsError(err) /\ h[err.addr].UserMsg = "" THEN h[err.addr].Text
    ELSE IF IsError(err) THEN h[err.addr].UserMsg
    ELSE ""

RECURSIVE UserMsg(_, _)
\* func UserMsg(err error) string
UserMsg(h, err) ==
    IF err = NilErr THEN ""
    ELSE IF IsError(err) /\ h[err.addr].UserMsg # "" THEN h[err.addr].UserMsg
    ELSE UserMsg(h, Unwrap(h, err))

\* A nil interface{} returned by a JSONFunc.
NilValue == [nil |-> TRUE]

\* f(e) for the JSONFunc values of the tests: toJSON returns
\* map[string]interface{}{"op": e.Op, "kind": e.Kind}, nilJSON returns nil,
\* sliceJSON returns []string{"this", "that"}.
CallJSONFunc(f, e) ==
    CASE f = "toJSON" -> [op |-> e.Op, kind |-> e.Kind]
      [] f = "nilJSON" -> NilValue
      [] f = "sliceJSON" -> [slice |-> <<[item |-> "this"], [item |-> "that"]>>]

\* Variant of JSON that never consults the override.
JSONDefault(h, a) ==
    LET k == WhatKind(h, Ptr(a))
    IN  [code |-> k.Code, error |-> KindString(k), msg |-> UserMsg(h, Ptr(a))]

\* func (e *Error) JSON() interface{}
JSON(h, a) ==
    IF h[a].ToJSON # NilJSON THEN CallJSONFunc(h[a].ToJSON, h[a])
    ELSE LET k == WhatKind(h, Ptr(a))
         IN  [code |-> k.Code, error |-> KindString(k), msg |-> UserMsg(h, Ptr(a))]

RECURSIVE CollectData(_)
\* The callback of Details applied along the walk: dd = append(dd, err.Data)
\* for each record with a Data.
CollectData(layers) ==
    IF layers = <<>> THEN <<>>
    ELSE IF Head(layers).Data # NilData
    THEN <<Head(layers).Data>> \o CollectData(Tail(layers))
    ELSE CollectData(Tail(layers))

\* The interface{} values InternalDetails.Data can hold: one payload, or
\* the []interface{} of all payloads.
Value(d) == [value |-> d]

Slice(dd) == [slice |-> dd]

\* Variant of Details that exposes the slice whenever a payload was found.
DetailsAlwaysSlice(h, a) ==
    LET dd == CollectData(walk(h, a))
    IN  [Ops |-> Ops(h, a), Kind |-> WhatKind(h, Ptr(a)),
         Error |-> ErrorString(h, Ptr(a)),
         Data |-> IF Len(dd) >= 1 THEN Slice(dd) ELSE NilValue]

\* func (e *Error) Details() InternalDetails
Details(h, a) ==
    LET dd == CollectData(walk(h, a))
        d1 == IF Len(dd) = 1 THEN Value(dd[1]) ELSE NilValue
        data == IF Len(dd) > 1 THEN Slice(dd) ELSE d1
    IN  [Ops |-> Ops(h, a), Kind |-> WhatKind(h, Ptr(a)),
         Error |-> ErrorString(h, Ptr(a)), Data |-> data]

(***************************************************************************)
(* Template matching (match.go).                                           *)
(***************************************************************************)
\* The verb %q applied to a string.
Quote(str) == "\"" \o str \o "\""

\* The verb %v applied to an error value.
FormatV(h, err) == IF err = NilErr THEN "<nil>" ELSE ErrorString(h, err)

\* The verb %T applied to an error value.
FormatT(err) ==
    CASE err.tag = "nil" -> "<nil>"
      [] err.tag = "ptr" -> "*errors.Error"
      [] err.tag = "new" -> "*errors.errorString"
      [] err.tag = "my" -> "errors.MyError"
      [] err.tag = "errorf" -> "*fmt.wrapError"

\* The verb %#v applied to the Data values of the tests.
FormatSharpV(d) ==
    CASE d = NilData -> "<nil>"
      [] d = <<420>> -> "420"
      [] d = <<1>> -> "1"

\* Variant of TypeMismatch that accepts two identical arguments.
TypeMismatchUnlessSame(h, template, err) ==
    IF template = err THEN <<>>
    ELSE <<"template=" \o Quote(FormatV(h, template)) \o "(type "
           \o FormatT(template) \o "); err=" \o Quote(FormatV(h, err))
           \o "(type " \o FormatT(err) \o ")">>

\* Diff when template or err is not a *Error: the single discrepancy.
TypeMismatch(h, template, err) ==
    <<"template=" \o Quote(FormatV(h, template)) \o "(type "
      \o FormatT(template) \o "); err=" \o Quote(FormatV(h, err))
      \o "(type " \o FormatT(err) \o ")">>

\* Variant of FieldDiffs that compares every field, zero or not.
FieldDiffsStrict(t, e) ==
    (IF t.Op # e.Op
     THEN <<"Op: template=" \o Quote(t.Op) \o "; err=" \o Quote(e.Op)>>
     ELSE <<>>)
    \o (IF t.Kind # e.Kind
        THEN <<"Kind: template=" \o Quote(KindString(t.Kind)) \o "; err="
               \o Quote(KindString(e.Kind))>>
        ELSE <<>>)
    \o (IF t.Text # e.Text
        THEN <<"Text: template=" \o Quote(t.Text) \o "; err=" \o Quote(e.Text)>>
        ELSE <<>>)
    \o (IF t.UserMsg # e.UserMsg
        THEN <<"UserMsg: template=" \o Quote(t.UserMsg) \o "; err="
               \o Quote(e.UserMsg)>>
        ELSE <<>>)
    \o (IF t.Data # e.Data
        THEN <<"Data: template=" \o Quote(FormatSharpV(t.Data)) \o "; err="
               \o Quote(FormatSharpV(e.Data))>>
        ELSE <<>>)

\* The discrepancies Diff records for Op, Kind, Text, UserMsg and Data of
\* the template record t against the record e.
FieldDiffs(t, e) ==
    (IF t.Op # "" /\ t.Op # e.Op
     THEN <<"Op: template=" \o Quote(t.Op) \o "; err=" \o Quote(e.Op)>>
     ELSE <<>>)
    \o (IF t.Kind # Unknown /\ t.Kind # e.Kind
        THEN <<"Kind: template=" \o Quote(KindString(t.Kind)) \o "; err="
               \o Quote(KindString(e.Kind))>>
        ELSE <<>>)
    \o (IF t.Text # "" /\ t.Text # e.Text
        THEN <<"Text: template=" \o Quote(t.Text) \o "; err=" \o Quote(e.Text)>>
        ELSE <<>>)
    \o (IF t.UserMsg # "" /\ t.UserMsg # e.UserMsg
        THEN <<"UserMsg: template=" \o Quote(t.UserMsg) \o "; err="
               \o Quote(e.UserMsg)>>
        ELSE <<>>)
    \o (IF t.Data # NilData /\ t.Data # e.Data
        THEN <<"Data: template=" \o Quote(FormatSharpV(t.Data)) \o "; err="
               \o Quote(FormatSharpV(e.Data))>>
        ELSE <<>>)

\* Variant of ForeignCauseDiff that accepts a candidate without a cause.
ForeignCauseDiffLenient(h, tErr, eErr) ==
    IF eErr # NilErr /\ ErrorString(h, eErr) # ErrorString(h, tErr)
    THEN <<"Err(nested): template=" \o Quote(FormatV(h, tErr)) \o "(type "
           \o FormatT(tErr) \o "); err=" \o Quote(FormatV(h, eErr))
           \o "(type " \o FormatT(eErr) \o ")">>
    ELSE <<>>

\* The default case of the switch of Diff: the template's cause is a
\* foreign error.
ForeignCauseDiff(h, tErr, eErr) ==
    IF eErr = NilErr \/ ErrorString(h, eErr) # ErrorString(h, tErr)
    THEN <<"Err(nested): template=" \o Quote(FormatV(h, tErr)) \o "(type "
           \o FormatT(tErr) \o "); err=" \o Quote(FormatV(h, eErr))
           \o "(type " \o FormatT(eErr) \o ")">>
    ELSE <<>>

\* for _, d := range cdiff { diff = append(diff, "\t"+d) }
Indent(cdiff) == [i \in 1..Len(cdiff) |-> "\t" \o cdiff[i]]

RECURSIVE Diff(_, _, _)
\* func Diff(template, err error) []string
Diff(h, template, err) ==
    IF ~IsError(template) \/ ~IsError(err) THEN TypeMismatch(h, template, err)
    ELSE LET t == h[template.addr]
             e == h[err.addr]
             diff == FieldDiffs(t, e)
         IN  IF t.Err = NilErr THEN diff
             ELSE IF IsError(t.Err)
             THEN LET cdiff == Diff(h, t.Err, e.Err)
                  IN  IF cdiff = <<>> THEN diff
                      ELSE diff \o <<"Diff(template.Err, err.Err)=">> \o Indent(cdiff)
             ELSE diff \o ForeignCauseDiff(h, t.Err, e.Err)

\* func Match(template, err error) bool
Match(h, template, err) == Len(Diff(h, template, err)) = 0

(***************************************************************************)
(* The calling programs.  Both record the last call of E: its options,     *)
(* the heap before it, and the heap and the Error under construction       *)
(* after the options were applied, before promoteFields ran.               *)
(***************************************************************************)
VARIABLES
    heap,   \* the Error records allocated so far, by address
    errs,   \* the addresses returned by the E calls so far, oldest first
    call,   \* the last call of E
    calls,  \* the option lists of the E calls so far, oldest first
    shared, \* the address of the Error published to the threads, 0 before
    base,   \* the heap at the moment of publication
    thread, \* each wrapping thread's position in E and its local variable e
    seen,   \* what the reading thread observed, if it has read
    jr,     \* the position of the JSONResponder call and its local variables
    wire,   \* the observer notifications and the writes to the
            \* http.ResponseWriter, in the order they were made
    dec     \* the position of the validating decoder and its local variables

vars == <<heap, errs, call, calls, shared, base, thread, seen, jr, wire, dec>>

\* The variables of the JSONResponder and of the validating decoder.
httpVars == <<jr, wire, dec>>

OpVals == {"Op1", "Op2"}

KindVals == {NotFound, Internal, CustomKind}

TextVals == {"msg", "boom"}

UserMsgVals == {"msg a", "msg b"}

DataVals == {420, 1}

JSONVals == {"toJSON", "nilJSON"}

\* Foreign errors: errors.New("stoinks") and MyError{}.
Foreign == {New("stoinks"), MyError}

\* Options that set one field.
FieldOpts ==
    {WithOp(v) : v \in OpVals} \cup {KindOpt(v) : v \in KindVals} \cup
    {WithText(v) : v \in TextVals} \cup {WithUserMsg(v) : v \in UserMsgVals} \cup
    {WithData(v) : v \in DataVals} \cup {WithToJSON(v) : v \in JSONVals}

\* At most one field option followed by the option that attaches a cause.
WithCause(causes) ==
    {<<c>> : c \in causes} \cup {<<o, c>> : o \in FieldOpts, c \in causes}

\* The option lists of a root cause: one field, a foreign cause, or both.
RootLists ==
    {<<o>> : o \in FieldOpts} \cup WithCause({WithErr(f) : f \in Foreign})

\* The ways of attaching an error returned earlier: WithErr, the Fields
\* bundle, and WithErr of a foreign wrapper around it.
Attach(a) ==
    {WithErr(Ptr(a)), Fields([Error EXCEPT !.Err = Ptr(a)]), WithErr(Errorf(a))}

WrapLists(rs) == WithCause(UNION {Attach(rs[i]) : i \in 1..Len(rs)})

\* The JSONResponder before a call.
JRIdle ==
    [pc |-> "idle", via |-> "", n |-> 0, f |-> "nil", err |-> NilErr,
     status |-> 0, body |-> NilValue, i |-> 0, oerr |-> NilErr, after |-> ""]

\* The validating decoder before a call.
DecIdle == [pc |-> "idle", validated |-> 0, derr |-> NilErr, verr |-> NilErr,
            result |-> NilErr]

\* The goroutines that wrap the published Error.
Threads == {1, 2}

NoCall == [opts |-> <<>>, pre |-> <<>>, h0 |-> <<>>, e0 |-> Error]

Init ==
    /\ heap = <<>>
    /\ errs = <<>>
    /\ call = NoCall
    /\ calls = <<>>
    /\ shared = 0
    /\ base = <<>>
    /\ thread = [t \in Threads |-> [pc |-> "idle", e |-> Error]]
    /\ seen = <<>>
    /\ jr = JRIdle
    /\ wire = <<>>
    /\ dec = DecIdle

\* E(opts...) is called and returns.
Constructed(opts) ==
    LET r == ApplyAll(heap, Error, opts)
    IN  /\ heap' = E(heap, opts)
        /\ errs' = Append(errs, Len(heap'))
        /\ call' = [opts |-> opts, pre |-> heap, h0 |-> r.h, e0 |-> r.e]
        /\ calls' = Append(calls, opts)

\* err := E(opts...)
CallE(opts) ==
    /\ Constructed(opts)
    /\ UNCHANGED <<shared, base, thread, seen, httpVars>>

\* The first call builds the root cause.
Root ==
    /\ errs = <<>>
    /\ \E opts \in RootLists : CallE(opts)

\* Every later call wraps an error returned earlier.
Wrap ==
    /\ errs # <<>>
    /\ Len(errs) < MaxCalls
    /\ \E opts \in WrapLists(errs) : CallE(opts)

Next == Root \/ Wrap

Spec == Init /\ [][Next]_vars

\* The address returned by the last call.
ret == errs[Len(errs)]

Called == errs # <<>>

(***************************************************************************)
(* The concurrent program: one goroutine builds an Error x, alone, and     *)
(* publishes it; then the goroutines of Threads each call E with x as the  *)
(* cause while a reader calls the accessors on x.  A call of E takes two   *)
(* steps, the loop over the options and promoteFields with the return.     *)
(***************************************************************************)
\* Before publication the root cause may be wrapped once.
DeepenLists(a) == {<<WithOp("Op2"), WithErr(Ptr(a))>>}

Deepen ==
    /\ Len(errs) = 1
    /\ shared = 0
    /\ \E opts \in DeepenLists(errs[1]) : CallE(opts)

\* The goroutine that builds the error, alone: a root cause from the lists
\* roots, then at most one wrapper around it.
Prepare(roots) ==
    /\ Len(errs) <= 1
    /\ shared = 0
    /\ \E opts \in (IF errs = <<>> THEN roots ELSE DeepenLists(errs[1])) :
           CallE(opts)

\* The Error returned last is handed to the other goroutines.
Publish ==
    /\ errs # <<>>
    /\ shared = 0
    /\ shared' = ret
    /\ base' = heap
    /\ UNCHANGED <<heap, errs, call, calls, thread, seen, httpVars>>

\* The option lists of the wrapping goroutines.
ThreadLists(a) ==
    {<<c>> : c \in Attach(a)} \cup {<<WithOp("Op1"), c>> : c \in Attach(a)}

\* Thread t enters E: var e Error; for ... { opt.Apply(&e) }
Begin(t) ==
    /\ shared # 0
    /\ thread[t].pc = "idle"
    /\ \E opts \in ThreadLists(shared) :
           LET r == ApplyAll(heap, Error, opts)
           IN  /\ heap' = r.h
               /\ thread' = [thread EXCEPT ![t] = [pc |-> "promote", e |-> r.e]]
    /\ UNCHANGED <<errs, call, calls, shared, base, seen, httpVars>>

\* Thread t leaves E: e.promoteFields(); return &e
Promote(t) ==
    /\ thread[t].pc = "promote"
    /\ LET p == promoteFields(heap, thread[t].e)
       IN  /\ heap' = Append(p.h, p.e)
           /\ errs' = Append(errs, Len(heap'))
           /\ thread' = [thread EXCEPT ![t] = [pc |-> "done", e |-> p.e]]
    /\ UNCHANGED <<call, calls, shared, base, seen, httpVars>>

\* What the accessors return for the Error at address a.
Observe(h, a) ==
    [Error |-> ErrorString(h, Ptr(a)),
     Ops |-> Ops(h, a),
     JSON |-> JSON(h, a),
     Details |-> Details(h, a),
     WhatKind |-> WhatKind(h, Ptr(a)),
     StatusCode |-> StatusCode(h, Ptr(a)),
     UserMsg |-> UserMsg(h, Ptr(a)),
     Match |-> Match(h, Ptr(a), Ptr(a))]

\* The reader calls the accessors on the published Error.
Read ==
    /\ shared # 0
    /\ seen = <<>>
    /\ seen' = <<Observe(heap, shared)>>
    /\ UNCHANGED <<heap, errs, call, calls, shared, base, thread, httpVars>>

NextConc ==
    \/ Prepare(RootLists)
    \/ Publish
    \/ \E t \in Threads : Begin(t)
    \/ \E t \in Threads : Promote(t)
    \/ Read

SpecConc == Init /\ [][NextConc]_vars

(***************************************************************************)
(* JSONResponder (httputil/json_responder.go).  One goroutine builds an    *)
(* error and answers a request with jr.Error or jr.ErrorWithStatus.  wire  *)
(* records, in order, each call of an ErrObserver and each write to the    *)
(* http.ResponseWriter.                                                    *)
(***************************************************************************)
\* The errors of the request: built from one field, a foreign cause or
\* both, or with the ToJSON of TestJSONResponderError that returns a slice.
RespondLists ==
    RootLists \cup {<<WithToJSON("sliceJSON")>>,
                    <<KindOpt(NotFound), WithToJSON("sliceJSON")>>}

Build ==
    /\ errs = <<>>
    /\ \E opts \in RespondLists : CallE(opts)

\* The error handed to the responder: the Error built, a fmt.Errorf wrapper
\* around it, or a foreign error.
Supplied == {Ptr(ret), Errorf(ret), New("stoinks"), MyError}

\* The statuses handed to ErrorWithStatus.
StatusVals == {StatusConflict, StatusInternalServerError}

\* jr.ErrToRespBody: nil, the function of the test that returns a
\* json.RawMessage, and a function that returns nil.
RespBodyFuncs == {"nil", "raw", "nilBody"}

\* The error json.NewEncoder(w).Encode returns when the write fails.
EncodeErr == New("broken pipe")

Observed(i, err) == [ev |-> "observe", n |-> i, err |-> err, val |-> NilValue]

HeaderSet == [ev |-> "header", n |-> 0, err |-> NilErr, val |-> NilValue]

StatusWritten(status) == [ev |-> "status", n |-> status, err |-> NilErr, val |-> NilValue]

BodyWritten(body) == [ev |-> "body", n |-> 0, err |-> NilErr, val |-> body]

RECURSIVE AsJSONer(_, _)
\* errors.As(err, &j) with j an xgo.JSONer: the first error of the chain
\* that has a JSON method, which only a *Error has; nil if there is none.
AsJSONer(h, err) ==
    IF err = NilErr \/ IsError(err) THEN err ELSE AsJSONer(h, Unwrap(h, err))

\* jr.ErrToRespBody(err)
CallErrToRespBody(f, err) ==
    CASE f = "raw" -> [raw |-> "no ok"]
      [] f = "nilBody" -> NilValue

\* func (jr *JSONResponder) convertErrorToBody(err error) interface{}: the
\* body, or a panic: reflect.TypeOf(v) is nil for a nil v, and Kind() is
\* called on it.
convertErrorToBody(h, f, err) ==
    IF f # "nil" THEN [panic |-> FALSE, body |-> CallErrToRespBody(f, err)]
    ELSE LET j == AsJSONer(h, err)
             v == JSON(h, j.addr)
         IN  IF j # NilErr /\ v = NilValue
             THEN [panic |-> TRUE, body |-> NilValue]
             ELSE [panic |-> FALSE,
                   body |-> [success |-> FALSE, msg |-> UserMsg(h, err),
                             errors |-> IF j = NilErr THEN NilValue
                                        ELSE IF "slice" \in DOMAIN v THEN v
                                        ELSE [slice |-> <<v>>]]]

\* Variant of Entered that goes to the response without observeError.
EnteredUnobserved(via, status, err, n, f) ==
    [JRIdle EXCEPT !.pc = "observe", !.via = via, !.n = n, !.f = f, !.err = err,
                   !.status = status, !.i = n + 1, !.oerr = err, !.after = "convert"]

\* ErrorWithStatus is entered: jr.observeError(r, err) comes first.
Entered(via, status, err, n, f) ==
    [JRIdle EXCEPT !.pc = "observe", !.via = via, !.n = n, !.f = f, !.err = err,
                   !.status = status, !.i = 1, !.oerr = err, !.after = "convert"]

\* jr.Error(r, w, err) with n observers registered
ErrorCall ==
    /\ errs # <<>>
    /\ jr.pc = "idle"
    /\ \E err \in Supplied, n \in 0..MaxObservers, f \in RespBodyFuncs :
           jr' = Entered("Error", StatusCode(heap, err), err, n, f)
    /\ UNCHANGED <<heap, errs, call, calls, shared, base, thread, seen, wire, dec>>

\* jr.ErrorWithStatus(r, w, status, err) with n observers registered
ErrorWithStatusCall ==
    /\ errs # <<>>
    /\ jr.pc = "idle"
    /\ \E err \in Supplied, n \in 0..MaxObservers, f \in RespBodyFuncs,
          status \in StatusVals :
           jr' = Entered("ErrorWithStatus", status, err, n, f)
    /\ UNCHANGED <<heap, errs, call, calls, shared, base, thread, seen, wire, dec>>

\* observeError: for _, f := range jr.ErrObservers { f(r, err) }
Notify ==
    /\ jr.pc = "observe"
    /\ jr.i <= jr.n
    /\ wire' = Append(wire, Observed(jr.i, jr.oerr))
    /\ jr' = [jr EXCEPT !.i = @ + 1]
    /\ UNCHANGED <<heap, errs, call, calls, shared, base, thread, seen, dec>>

\* observeError has returned to ErrorWithStatus: jr.convertErrorToBody(err)
Convert ==
    /\ jr.pc = "observe"
    /\ jr.i > jr.n
    /\ jr.after = "convert"
    /\ LET c == convertErrorToBody(heap, jr.f, jr.err)
       IN  jr' = IF c.panic THEN [jr EXCEPT !.pc = "panic"]
                 ELSE [jr EXCEPT !.pc = "respond", !.body = c.body]
    /\ UNCHANGED <<heap, errs, call, calls, shared, base, thread, seen, wire, dec>>

\* RespondWithStatus: if v == nil { w.WriteHeader(status); return }
WriteStatusOnly ==
    /\ jr.pc = "respond"
    /\ jr.body = NilValue
    /\ wire' = Append(wire, StatusWritten(jr.status))
    /\ jr' = [jr EXCEPT !.pc = "done"]
    /\ UNCHANGED <<heap, errs, call, calls, shared, base, thread, seen, dec>>

\* RespondWithStatus: w.Header().Set("Content-Type", ...)
SetHeader ==
    /\ jr.pc = "respond"
    /\ jr.body # NilValue
    /\ wire' = Append(wire, HeaderSet)
    /\ jr' = [jr EXCEPT !.pc = "header"]
    /\ UNCHANGED <<heap, errs, call, calls, shared, base, thread, seen, dec>>

\* RespondWithStatus: w.WriteHeader(status)
WriteHeader ==
    /\ jr.pc = "header"
    /\ wire' = Append(wire, StatusWritten(jr.status))
    /\ jr' = [jr EXCEPT !.pc = "encode"]
    /\ UNCHANGED <<heap, errs, call, calls, shared, base, thread, seen, dec>>

\* RespondWithStatus: json.NewEncoder(w).Encode(body) writes the body, or
\* fails, and then the observers are told of that error.
Encode ==
    /\ jr.pc = "encode"
    /\ \E ok \in BOOLEAN :
           IF ok
           THEN /\ wire' = Append(wire, BodyWritten(jr.body))
                /\ jr' = [jr EXCEPT !.pc = "done"]
           ELSE /\ wire' = wire
                /\ jr' = [jr EXCEPT !.pc = "observe", !.i = 1,
                                    !.oerr = EncodeErr, !.after = "done"]
    /\ UNCHANGED <<heap, errs, call, calls, shared, base, thread, seen, dec>>

\* observeError has returned to RespondWithStatus, which returns.
Return ==
    /\ jr.pc = "observe"
    /\ jr.i > jr.n
    /\ jr.after = "done"
    /\ jr' = [jr EXCEPT !.pc = "done"]
    /\ UNCHANGED <<heap, errs, call, calls, shared, base, thread, seen, wire, dec>>

NextHTTP ==
    \/ Build
    \/ Deepen
    \/ ErrorCall
    \/ ErrorWithStatusCall
    \/ Notify
    \/ Convert
    \/ WriteStatusOnly
    \/ SetHeader
    \/ WriteHeader
    \/ Encode
    \/ Return

SpecHTTP == Init /\ [][NextHTTP]_vars

(***************************************************************************)
(* ValidatingDecoderMiddleware (httputil/decoder.go).  One goroutine       *)
(* builds an error, which the inner decoder or the validator may return,   *)
(* and calls the Decode of the decoder the middleware produced.            *)
(***************************************************************************)
\* const op = "ValidatingDecoderMiddleware"
DecoderOp == "ValidatingDecoderMiddleware"

\* What d.Decode(r, v) returns.
DecodeErrs == {NilErr, New("stoinks"), Ptr(ret)}

\* What vd.Validate(v) returns.
ValidateErrs == {NilErr, New("stoinks"), MyError, Ptr(ret), Errorf(ret)}

\* The Decode of the decoder the middleware produced is called.
DecodeCall ==
    /\ errs # <<>>
    /\ dec.pc = "idle"
    /\ dec' = [dec EXCEPT !.pc = "decode"]
    /\ UNCHANGED <<heap, errs, call, calls, shared, base, thread, seen, jr, wire>>

\* Variant of InnerDecode that goes on to the validator whatever the inner
\* decoder returned.
InnerDecodeThenValidate ==
    /\ dec.pc = "decode"
    /\ \E derr \in DecodeErrs : dec' = [dec EXCEPT !.pc = "validate", !.derr = derr]
    /\ UNCHANGED <<heap, errs, call, calls, shared, base, thread, seen, jr, wire>>

\* if err := d.Decode(r, v); err != nil { return err }
InnerDecode ==
    /\ dec.pc = "decode"
    /\ \E derr \in DecodeErrs :
           dec' = IF derr # NilErr
                  THEN [dec EXCEPT !.pc = "done", !.derr = derr, !.result = derr]
                  ELSE [dec EXCEPT !.pc = "validate"]
    /\ UNCHANGED <<heap, errs, call, calls, shared, base, thread, seen, jr, wire>>

\* err := vd.Validate(v); with a nil err the decoder returns nil
Validate ==
    /\ dec.pc = "validate"
    /\ \E verr \in ValidateErrs :
           dec' = [dec EXCEPT !.pc = IF verr # NilErr THEN "wrap" ELSE "done",
                              !.validated = @ + 1, !.verr = verr]
    /\ UNCHANGED <<heap, errs, call, calls, shared, base, thread, seen, jr, wire>>

\* return errors.E(errors.WithOp(op), errors.WithErr(err))
WrapInvalid ==
    /\ dec.pc = "wrap"
    /\ Constructed(<<WithOp(DecoderOp), WithErr(dec.verr)>>)
    /\ dec' = [dec EXCEPT !.pc = "done", !.result = Ptr(Len(heap'))]
    /\ UNCHANGED <<shared, base, thread, seen, jr, wire>>

NextDecode == Prepare(RespondLists) \/ DecodeCall \/ InnerDecode \/ Validate \/ WrapInvalid

SpecDecode == Init /\ [][NextDecode]_vars

(***************************************************************************)
(* The option-list program: after the root cause, one call of E with an    *)
(* option list of up to MaxOpts options, among them bundles, composed      *)
(* options, options that repeat a field and options that set a zero value. *)
(***************************************************************************)
ListOpts(rs) ==
    {WithOp("Op1"), WithOp("Op2"), KindOpt(NotFound), KindOpt(Unknown),
     WithText("msg"), WithErr(New("stoinks")), WithErr(NilErr),
     Fields(Error), Fields([Error EXCEPT !.Op = "Op1", !.Kind = Internal]),
     Options(<<WithOp("Op2"), WithUserMsg("msg a")>>)} \cup
    UNION {{WithErr(Ptr(rs[i])), Fields([Error EXCEPT !.Err = Ptr(rs[i])]),
            Options(<<WithErr(Ptr(rs[i])), WithData(420)>>)} : i \in 1..Len(rs)}

OptLists(rs) == UNION {[1..n -> ListOpts(rs)] : n \in 1..MaxOpts}

CallOpts ==
    /\ Len(errs) = 1
    /\ \E opts \in OptLists(errs) : CallE(opts)

NextOpts == Root \/ CallOpts

SpecOpts == Init /\ [][NextOpts]_vars

(***************************************************************************)
(* Properties.                                                             *)
(***************************************************************************)
RECURSIVE Flatten(_)
\* The option list with every Options(...) replaced by its members.
Flatten(opts) ==
    IF opts = <<>> THEN <<>>
    ELSE (IF Head(opts).opt = "Options" THEN Flatten(Head(opts).sub)
          ELSE <<Head(opts)>>) \o Flatten(Tail(opts))

ScalarFields == {"Op", "Kind", "Text", "UserMsg", "Data", "ToJSON"}

\* The field a single-field option writes.
FieldOf(o) ==
    CASE o.opt = "WithOp" -> "Op"
      [] o.opt = "Kind" -> "Kind"
      [] o.opt = "WithText" -> "Text"
      [] o.opt = "WithUserMsg" -> "UserMsg"
      [] o.opt = "WithData" -> "Data"
      [] o.opt = "WithToJSON" -> "ToJSON"
      [] o.opt = "WithErr" -> "Err"

\* Option o (not an Options list) targets field F: a bundle targets the
\* fields it holds a non-zero value for.
Targets(o, F) == IF o.opt = "Fields" THEN o.f[F] # Error[F] ELSE FieldOf(o) = F

\* The positions in a flattened list of the options that target F.
Setters(flat, F) == {i \in 1..Len(flat) : Targets(flat[i], F)}

Last(S) == CHOOSE m \in S : \A n \in S : n <= m

\* The last option of a flattened list that targets F.
LastSetter(flat, F) == flat[Last(Setters(flat, F))]

\* The last call attached its cause with WithErr(x), x a *Error.
WrappedByWithErr ==
    /\ Called
    /\ LET flat == Flatten(call.opts)
       IN  /\ Setters(flat, "Err") # {}
           /\ LastSetter(flat, "Err").opt = "WithErr"
           /\ IsError(LastSetter(flat, "Err").f.Err)

\* The address x passed to that WithErr.
Wrapped == LastSetter(Flatten(call.opts), "Err").f.Err.addr

\* C1: wrapping never modifies the wrapped error.  After E(..., WithErr(x))
\* returns, the record of x holds in every field the value it held before
\* the call, whatever the other options are.
C1_WrappedUnchanged == WrappedByWithErr => heap[Wrapped] = call.pre[Wrapped]

\* C1 witness: x had an Op, promotion changed the copy of x that E made, and
\* x is as it was.
C1_Witness ==
    /\ WrappedByWithErr
    /\ call.pre[Wrapped].Op # ""
    /\ IsError(call.e0.Err)
    /\ heap[call.e0.Err.addr] # call.pre[Wrapped]
    /\ heap[Wrapped] = call.pre[Wrapped]

\* C2: a cause that is a *Error is a private copy whichever option attached
\* it (WithErr, the Fields bundle, Options of them), so a call of E leaves
\* every Error the caller holds unchanged: every record allocated before
\* the call holds after it what it held before.
C2_CallerErrorsUnchanged ==
    (Called /\ IsError(call.e0.Err)) =>
        \A a \in 1..Len(call.pre) : heap[a] = call.pre[a]

\* The value of field F that a flattened option list leaves in the Error
\* under construction: that of the last option targeting F, the zero value
\* if there is none.
LastWritten(flat, F) ==
    IF Setters(flat, F) = {} THEN Error[F] ELSE LastSetter(flat, F).f[F]

\* The cause the list leaves: as LastWritten, except that WithErr of a
\* *Error leaves a fresh record equal to the one passed.
CauseAsWritten(flat) ==
    IF Setters(flat, "Err") = {} THEN call.e0.Err = NilErr
    ELSE LET o == LastSetter(flat, "Err")
         IN  IF o.opt = "WithErr" /\ IsError(o.f.Err)
             THEN /\ IsError(call.e0.Err)
                  /\ call.e0.Err.addr > Len(call.pre)
                  /\ call.h0[call.e0.Err.addr] = call.pre[o.f.Err.addr]
             ELSE call.e0.Err = o.f.Err

\* C3: E applies its options in the order given and the last option that
\* targets a field decides the value the field has before promotion runs;
\* a field no option targets keeps its zero value.
C3_LastWriteWins ==
    Called =>
        LET flat == Flatten(call.opts)
        IN  /\ \A F \in ScalarFields : call.e0[F] = LastWritten(flat, F)
            /\ CauseAsWritten(flat)

\* C3 witness: E(WithOp("Op1"), NotFound, WithOp("Op2")) returned an Error
\* with Op "Op2" and Kind NotFound.
C3_Witness ==
    /\ Called
    /\ call.opts = <<WithOp("Op1"), KindOpt(NotFound), WithOp("Op2")>>
    /\ heap[ret].Op = "Op2"
    /\ heap[ret].Kind = NotFound
    /\ heap[ret].Text = ""

\* The last call attached a cause that is a *Error.
WrappedError == Called /\ IsError(call.e0.Err)

\* The address of that cause, the record it held when promoteFields began,
\* and the wrapper's own fields at that moment.
CauseAddr == call.e0.Err.addr

CauseBefore == call.h0[CauseAddr]

Wrapper == [call.e0 EXCEPT !.Err = NilErr]

\* e holds a non-zero value in field F and the zero value everywhere else.
OnlyField(e, F) == e[F] # Error[F] /\ e = [Error EXCEPT ![F] = e[F]]

\* C4: duplicate suppression.  For op, kind, user message and text: a
\* wrapper holding only the value v wrapped around an Error holding only
\* the same v gives a single layer that holds v and has no cause, and for
\* op, kind and text Error() shows v exactly once.
C4_DuplicateSuppressed ==
    \A F \in {"Op", "Kind", "UserMsg", "Text"} :
        (WrappedError /\ OnlyField(Wrapper, F) /\ CauseBefore = Wrapper) =>
            /\ heap[ret] = Wrapper
            /\ F = "Op" => ErrorString(heap, Ptr(ret)) = Wrapper.Op
            /\ F = "Kind" => ErrorString(heap, Ptr(ret)) = KindString(Wrapper.Kind)
            /\ F = "Text" => ErrorString(heap, Ptr(ret)) = Wrapper.Text

\* C4 witness: E(WithOp("Op1"), WithErr(E(WithOp("Op1")))) rendered "Op1".
C4_Witness ==
    /\ WrappedError
    /\ call.opts = <<WithOp("Op1"), WithErr(Ptr(1))>>
    /\ call.pre[1] = [Error EXCEPT !.Op = "Op1"]
    /\ heap[ret].Err = NilErr
    /\ ErrorString(heap, Ptr(ret)) = "Op1"

\* C5: pull-up is a move.  For op, kind, user message, data and ToJSON: if
\* the options leave the field of the wrapper unset and the direct cause is
\* a *Error, the wrapper ends with the value the cause had and the cause's
\* record ends with the zero value.
C5_PullUpMoves ==
    WrappedError =>
        \A F \in {"Op", "Kind", "UserMsg", "Data", "ToJSON"} :
            call.e0[F] = Error[F] =>
                /\ heap[ret][F] = CauseBefore[F]
                /\ heap[CauseAddr][F] = Error[F]

\* C5 witness: E(WithOp("Op1"), WithErr(E(WithData(420)))) has Data 420,
\* no cause and renders "Op1".
C5_Witness ==
    /\ WrappedError
    /\ call.opts = <<WithOp("Op1"), WithErr(Ptr(1))>>
    /\ call.pre[1] = [Error EXCEPT !.Data = <<420>>]
    /\ heap[ret].Data = <<420>>
    /\ heap[ret].Err = NilErr
    /\ ErrorString(heap, Ptr(ret)) = "Op1"

\* C6: non-promotion guard.  If the cause is left with an op or a kind, the
\* wrapper's text and cause link and the cause's own cause are what they
\* were, and the cause's text stays in the cause unless it duplicated the
\* wrapper's; the wrapper's text becomes the cause's text only when the
\* cause has no op and no kind left and the wrapper's text is empty.
C6_NonPromotionGuard ==
    WrappedError =>
        LET c == heap[CauseAddr]
            kept == c.Op # "" \/ c.Kind # Unknown
        IN  /\ kept =>
                /\ heap[ret].Text = call.e0.Text
                /\ heap[ret].Err = call.e0.Err
                /\ c.Err = CauseBefore.Err
                /\ c.Text = IF CauseBefore.Text = call.e0.Text THEN ""
                            ELSE CauseBefore.Text
            /\ heap[ret].Text = IF ~kept /\ call.e0.Text = "" THEN CauseBefore.Text
                                ELSE call.e0.Text
            /\ (~kept /\ call.e0.Text = "") => c.Text = ""

\* C6 witness: E(WithOp("Op1"), WithErr(x)) with x holding Op "Op2" and
\* Text "msg" rendered "Op1: Op2: msg".
C6_Witness ==
    /\ WrappedError
    /\ call.opts[1] = WithOp("Op1")
    /\ CauseBefore = [Error EXCEPT !.Op = "Op2", !.Text = "msg"]
    /\ ErrorString(heap, Ptr(ret)) = "Op1: Op2: msg"

\* C7: collapse invariant.  In every error returned by E, every *Error
\* reached as a cause has a non-default field other than Err.
C7_NoRedundantLayer ==
    \A i \in 1..Len(errs) :
        \A k \in 2..Len(walk(heap, errs[i])) : ~hasOnlyErr(walk(heap, errs[i])[k])

RECURSIVE Segments(_, _)
\* The non-empty segments of an error, outermost layer first: op, the
\* kind's display string unless Unknown, text, and at the end the string
\* of the foreign cause.
Segments(h, err) ==
    IF err = NilErr THEN <<>>
    ELSE IF IsError(err)
    THEN LET e == h[err.addr]
         IN  SelectSeq(<<e.Op,
                         IF e.Kind # Unknown THEN KindString(e.Kind) ELSE "",
                         e.Text>>, LAMBDA x : x # "")
             \o Segments(h, e.Err)
    ELSE SelectSeq(<<ErrorString(h, err)>>, LAMBDA x : x # "")

\* C8: string rendering.  Error() of every error built by E is its
\* segments joined with ": ", and "no error" exactly when there are none.
C8_Rendering ==
    \A i \in 1..Len(errs) :
        ErrorString(heap, Ptr(errs[i])) =
            IF Segments(heap, Ptr(errs[i])) = <<>> THEN "no error"
            ELSE Join(Segments(heap, Ptr(errs[i])), ": ")

RECURSIVE NthCause(_, _, _)
\* The error reached from err by n steps along Err while the links are
\* *Error; nil beyond the end.
NthCause(h, err, n) ==
    IF n = 0 THEN err
    ELSE IF IsError(err) THEN NthCause(h, h[err.addr].Err, n - 1)
    ELSE NilErr

\* The number of *Error layers from address a on.
Depth(h, a) ==
    CHOOSE n \in 1..Len(h) :
        /\ \A k \in 0..(n - 1) : IsError(NthCause(h, Ptr(a), k))
        /\ ~IsError(NthCause(h, Ptr(a), n))

\* The Op field of each of those layers, outermost first.
LayerOps(h, a) == [k \in 1..Depth(h, a) |-> h[NthCause(h, Ptr(a), k - 1).addr].Op]

\* C9: Ops() is the sequence of the non-empty Op fields of the layers
\* reached along Err while each link is a *Error, outermost first, and
\* empty when no layer has an op.
C9_Ops ==
    \A i \in 1..Len(errs) :
        Ops(heap, errs[i]) = SelectSeq(LayerOps(heap, errs[i]), LAMBDA o : o # "")

\* C9 witness: an error with an op at each of three levels.
C9_Witness ==
    /\ Called
    /\ Depth(heap, ret) = 3
    /\ Ops(heap, ret) = <<"Op1", "Op2", "Op1">>

RECURSIVE UnwrapChain(_, _)
\* err and everything reached from it by Unwrap, outermost first.
UnwrapChain(h, err) ==
    IF err = NilErr THEN <<>> ELSE <<err>> \o UnwrapChain(h, Unwrap(h, err))

\* The kind of the outermost element of the unwrap chain that implements
\* GetKind and reports a kind other than Unknown; Unknown if there is none.
OutermostKind(h, err) ==
    LET c == SelectSeq(UnwrapChain(h, err),
                       LAMBDA x : HasGetKind(x) /\ GetKind(h, x) # Unknown)
    IN  IF c = <<>> THEN Unknown ELSE GetKind(h, Head(c))

\* The errors the accessors are called with: nil, the foreign errors, the
\* errors returned by E and foreign wrappers around them.
Probes ==
    {NilErr} \cup Foreign \cup
    UNION {{Ptr(errs[i]), Errorf(errs[i])} : i \in 1..Len(errs)}

\* C10: WhatKind(err) is the kind of the outermost element of the unwrap
\* chain that reports one, Unknown for nil and when no element does; so a
\* wrapper that sets a kind has that kind, and a wrapper that sets none
\* has the kind its cause resolved to.
C10_WhatKind ==
    /\ \A err \in Probes : WhatKind(heap, err) = OutermostKind(heap, err)
    /\ Called =>
        WhatKind(heap, Ptr(ret)) =
            IF call.e0.Kind # Unknown THEN call.e0.Kind
            ELSE WhatKind(call.h0, call.e0.Err)

\* C10 witness: a wrapper without a kind around a foreign wrapper around a
\* NotFound error resolves to NotFound.
C10_Witness ==
    /\ Called
    /\ heap[ret].Kind = Unknown
    /\ heap[ret].Err.tag = "errorf"
    /\ WhatKind(heap, Ptr(ret)) = NotFound

\* The status of the outermost element of the unwrap chain that is a
\* StatusCoder and reports a status other than 0; 500 if there is none.
FirstStatus(h, err) ==
    LET c == SelectSeq(UnwrapChain(h, err),
                       LAMBDA x : HasStatusCoder(x) /\ StatusCoderCode(h, x) # 0)
    IN  IF c = <<>> THEN StatusInternalServerError ELSE StatusCoderCode(h, Head(c))

\* C11: StatusCode(err) is the first non-zero status a StatusCoder reports
\* along the unwrap chain, outermost first; it is never 0; a *Error that
\* reports 0 (kind Unknown, or a kind whose Status is 0) has the status of
\* its cause; nil and chains that report nothing give 500.
C11_StatusCode ==
    /\ StatusCode(heap, NilErr) = StatusInternalServerError
    /\ \A err \in Probes :
           /\ StatusCode(heap, err) = FirstStatus(heap, err)
           /\ StatusCode(heap, err) # 0
           /\ (IsError(err) /\ ErrorStatusCode(heap[err.addr]) = 0) =>
                  StatusCode(heap, err) = StatusCode(heap, heap[err.addr].Err)

\* C11 witness: an Error whose kind has Status 0, around MyError, has the
\* status MyError reports.
C11_Witness ==
    /\ Called
    /\ heap[ret].Kind = CustomKind
    /\ heap[ret].Err = MyError
    /\ StatusCode(heap, Ptr(ret)) = StatusForbidden

\* The UserMsg of the outermost *Error of the unwrap chain that has one;
\* the empty string if there is none.
FirstUserMsg(h, err) ==
    LET c == SelectSeq(UnwrapChain(h, err),
                       LAMBDA x : IsError(x) /\ h[x.addr].UserMsg # "")
    IN  IF c = <<>> THEN "" ELSE h[Head(c).addr].UserMsg

\* C12: UserMsg(err) is the first non-empty UserMsg of a *Error along the
\* unwrap chain, foreign wrappers passed through, and "" for nil and when
\* there is none; a wrapper built with WithUserMsg returns its own message,
\* and a different message its cause resolved to is still found below it.
C12_UserMsg ==
    /\ UserMsg(heap, NilErr) = ""
    /\ \A err \in Probes : UserMsg(heap, err) = FirstUserMsg(heap, err)
    /\ (Called /\ call.e0.UserMsg # "") =>
           /\ UserMsg(heap, Ptr(ret)) = call.e0.UserMsg
           /\ UserMsg(call.h0, call.e0.Err) \notin {"", call.e0.UserMsg} =>
                  UserMsg(heap, heap[ret].Err) = UserMsg(call.h0, call.e0.Err)

\* C12 witness: a wrapper with message "msg b" around a foreign wrapper of
\* an Error with message "msg a".
C12_Witness ==
    /\ Called
    /\ heap[ret].Err.tag = "errorf"
    /\ UserMsg(heap, Ptr(ret)) = "msg b"
    /\ UserMsg(heap, heap[ret].Err) = "msg a"

\* The heap with the cause of the Error at address a removed.
WithoutCause(h, a) == [h EXCEPT ![a].Err = NilErr]

\* C13: JSON() of an Error with a ToJSON override is what the override
\* returns for that Error, whatever its cause chain holds; without an
\* override it is {code, error, msg} of the resolved kind and the resolved
\* user message, so {"", "unknown error", ""} for the empty Error.
C13_JSON ==
    \A a \in 1..Len(heap) :
        /\ heap[a].ToJSON = "toJSON" =>
               /\ JSON(heap, a) = [op |-> heap[a].Op, kind |-> heap[a].Kind]
               /\ JSON(heap, a) = JSON(WithoutCause(heap, a), a)
        /\ heap[a].ToJSON = "nilJSON" => JSON(heap, a) = NilValue
        /\ heap[a].ToJSON = NilJSON =>
               JSON(heap, a) =
                   [code |-> OutermostKind(heap, Ptr(a)).Code,
                    error |-> KindString(OutermostKind(heap, Ptr(a))),
                    msg |-> FirstUserMsg(heap, Ptr(a))]
        /\ heap[a] = Error =>
               JSON(heap, a) = [code |-> "", error |-> "unknown error", msg |-> ""]

\* C13 witness: an Error with the toJSON override over a cause that has a
\* kind and a user message of its own, next to an empty Error.
C13_Witness ==
    /\ Called
    /\ heap[ret].ToJSON = "toJSON"
    /\ IsError(heap[ret].Err)
    /\ WhatKind(heap, heap[ret].Err) # heap[ret].Kind
    /\ JSON(heap, ret) = [op |-> heap[ret].Op, kind |-> heap[ret].Kind]
    /\ \E a \in 1..Len(heap) :
           /\ heap[a] = Error
           /\ JSON(heap, a).error = "unknown error"

\* C14: JSON override precedence under wrapping.  A wrapper given a ToJSON
\* override answers JSON() with that override; a wrapper given none around
\* an Error that has one answers with the cause's override applied to the
\* wrapper, so the result shows the wrapper's op and kind.
C14_JSONPrecedence ==
    WrappedError =>
        /\ call.e0.ToJSON # NilJSON =>
               JSON(heap, ret) = CallJSONFunc(call.e0.ToJSON, heap[ret])
        /\ (call.e0.ToJSON = NilJSON /\ CauseBefore.ToJSON # NilJSON) =>
               JSON(heap, ret) = CallJSONFunc(CauseBefore.ToJSON, heap[ret])

\* C14 witness: E(WithOp("Op1"), WithErr(x)) with x holding Op "Op2" and
\* the toJSON override projects to op "Op1".
C14_Witness ==
    /\ WrappedError
    /\ call.e0.ToJSON = NilJSON
    /\ call.e0.Op = "Op1"
    /\ CauseBefore.Op = "Op2"
    /\ CauseBefore.ToJSON = "toJSON"
    /\ JSON(heap, ret) = [op |-> "Op1", kind |-> Unknown]

\* The non-nil Data fields of the *Error layers from address a on,
\* outermost first.
Payloads(h, a) ==
    SelectSeq([k \in 1..Depth(h, a) |-> h[NthCause(h, Ptr(a), k - 1).addr].Data],
              LAMBDA d : d # NilData)

\* C15: Details() holds no Data when no layer of the chain has one, the
\* payload itself when exactly one layer has one, and the sequence of all
\* payloads, outermost first, when several have; its Ops is Ops(), its Kind
\* is WhatKind(e) and its Error is Error().
C15_Details ==
    \A i \in 1..Len(errs) :
        LET d == Details(heap, errs[i])
            P == Payloads(heap, errs[i])
        IN  /\ Len(P) = 0 => d.Data = NilValue
            /\ Len(P) = 1 => d.Data = Value(P[1])
            /\ Len(P) > 1 => d.Data = Slice(P)
            /\ d.Ops = Ops(heap, errs[i])
            /\ d.Kind = WhatKind(heap, Ptr(errs[i]))
            /\ d.Error = ErrorString(heap, Ptr(errs[i]))

\* C15 witness: an error with three payloads has been returned, after one
\* with a single payload.
C15_Witness ==
    /\ Len(errs) = 3
    /\ Details(heap, ret).Data = Slice(<<<<1>>, <<420>>, <<1>>>>)
    /\ Details(heap, errs[1]).Data = Value(<<1>>)

\* The arguments Match and Diff are called with: nil, a foreign error, and
\* the errors returned.
Args == {NilErr, MyError} \cup {Ptr(errs[i]) : i \in 1..Len(errs)}

\* C16: Match(template, err) is true exactly when Diff(template, err) is
\* empty; when either argument is not a *Error, Diff is exactly one
\* discrepancy, and so it is one level down when the template's cause is a
\* *Error and the candidate's cause is not; Match(nil, nil) and Match(x, x)
\* for a foreign x are false.
C16_MatchShape ==
    /\ ~Match(heap, NilErr, NilErr)
    /\ \A x \in Foreign : ~Match(heap, x, x)
    /\ \A t \in Args, e \in Args :
           LET d == Diff(heap, t, e)
           IN  /\ Match(heap, t, e) <=> d = <<>>
               /\ (~IsError(t) \/ ~IsError(e)) => Len(d) = 1
               /\ (/\ IsError(t) /\ IsError(e)
                   /\ IsError(heap[t.addr].Err) /\ ~IsError(heap[e.addr].Err)) =>
                      LET c == Diff(heap, heap[t.addr].Err, heap[e.addr].Err)
                      IN  /\ Len(c) = 1
                          /\ d = FieldDiffs(heap[t.addr], heap[e.addr])
                                 \o <<"Diff(template.Err, err.Err)=", "\t" \o c[1]>>

\* C16 witness: a template whose cause is a *Error against a candidate with
\* the same fields and a foreign cause gives the header and one line.
C16_Witness ==
    /\ Len(errs) = 3
    /\ IsError(heap[ret].Err)
    /\ heap[errs[1]].Err = MyError
    /\ FieldDiffs(heap[ret], heap[errs[1]]) = <<>>
    /\ Len(Diff(heap, Ptr(ret), Ptr(errs[1]))) = 2
    /\ Len(Diff(heap, MyError, MyError)) = 1

\* The addresses of the *Error layers from address a on, outermost first.
Layers(h, a) == [k \in 1..Depth(h, a) |-> NthCause(h, Ptr(a), k - 1).addr]

\* The fields a template compares.
TemplateFields == {"Op", "Kind", "Text", "UserMsg", "Data", "Err"}

\* The fields among them that hold a non-zero value in the record r.
NonZero(r) == {F \in TemplateFields : r[F] # Error[F]}

RECURSIVE Resets(_, _, _)
\* Every way of choosing, for each layer from the k-th on, a set of its
\* non-zero fields: a sequence of sets, one per layer.
Resets(h, L, k) ==
    IF k > Len(L) THEN {<<>>}
    ELSE {<<S>> \o rest : S \in SUBSET NonZero(h[L[k]]),
                          rest \in Resets(h, L, k + 1)}

\* The heap extended with a copy of the layers of the Error at address a
\* in which layer k has the fields c[k] reset to their zero values; the
\* copy of the outermost layer is at address Len(h) + 1.
TemplateHeap(h, a, c) ==
    LET L == Layers(h, a)
        layer(k) ==
            [F \in DOMAIN Error |->
                IF F \in c[k] THEN Error[F]
                ELSE IF F = "Err" /\ k < Len(L) THEN Ptr(Len(h) + k + 1)
                ELSE h[L[k]][F]]
    IN  h \o [k \in 1..Len(L) |-> layer(k)]

\* C17: Match is reflexive and field-selective.  Every Error matches
\* itself; a template made from it by resetting any fields among op, kind,
\* text, user message, data and cause, at any levels, matches it; and a
\* template holding at some level a non-zero op, kind, text, user message
\* or data that differs from the candidate's at that level does not match.
C17_MatchSelective ==
    /\ \A i \in 1..Len(errs) :
           /\ Match(heap, Ptr(errs[i]), Ptr(errs[i]))
           /\ \A c \in Resets(heap, Layers(heap, errs[i]), 1) :
                  Match(TemplateHeap(heap, errs[i], c),
                        Ptr(Len(heap) + 1), Ptr(errs[i]))
    /\ \A i \in 1..Len(errs), j \in 1..Len(errs) :
           LET Lt == Layers(heap, errs[i])
               Le == Layers(heap, errs[j])
           IN  (\E k \in 1..Len(Lt) :
                   /\ k <= Len(Le)
                   /\ \E F \in TemplateFields \ {"Err"} :
                          /\ heap[Lt[k]][F] # Error[F]
                          /\ heap[Lt[k]][F] # heap[Le[k]][F])
               => ~Match(heap, Ptr(errs[i]), Ptr(errs[j]))

\* C17 witness: the template {Op1} matches the candidate {Op1, NotFound},
\* and the reverse does not match.
C17_Witness ==
    /\ Len(errs) = 2
    /\ heap[errs[1]] = [Error EXCEPT !.Op = "Op1"]
    /\ heap[ret] = [Error EXCEPT !.Op = "Op1", !.Kind = NotFound]
    /\ Match(heap, Ptr(errs[1]), Ptr(ret))
    /\ ~Match(heap, Ptr(ret), Ptr(errs[1]))

\* C18: cause rule of Match and Diff.  A template without a cause is
\* compared on its fields only, whatever the candidate's cause.  A template
\* whose cause is a *Error matches only a candidate whose cause is a *Error
\* matching it, and the nested discrepancies follow a header line, each
\* after a tab.  A template whose cause is a foreign error matches only a
\* candidate whose cause is non-nil and has the same Error() string.
C18_CauseRule ==
    \A i \in 1..Len(errs), j \in 1..Len(errs) :
        LET t == heap[errs[i]]
            e == heap[errs[j]]
            d == Diff(heap, Ptr(errs[i]), Ptr(errs[j]))
            fields == FieldDiffs(t, e)
        IN  /\ t.Err = NilErr => d = fields
            /\ IsError(t.Err) =>
                   LET c == Diff(heap, t.Err, e.Err)
                   IN  /\ (d = <<>>) <=>
                              (fields = <<>> /\ IsError(e.Err) /\ Match(heap, t.Err, e.Err))
                       /\ c # <<>> =>
                              /\ Len(d) = Len(fields) + 1 + Len(c)
                              /\ d[Len(fields) + 1] = "Diff(template.Err, err.Err)="
                              /\ \A n \in 1..Len(c) :
                                     d[Len(fields) + 1 + n] = "\t" \o c[n]
            /\ (t.Err # NilErr /\ ~IsError(t.Err)) =>
                   ((d = <<>>) <=>
                       /\ fields = <<>>
                       /\ e.Err # NilErr
                       /\ ErrorString(heap, e.Err) = ErrorString(heap, t.Err))

\* C18 witness: a template whose cause is a foreign wrapper against a
\* candidate without a cause does not match, and a template with a *Error
\* cause against a candidate whose cause differs gives a nested diff.
C18_Witness ==
    /\ Len(errs) = 3
    /\ heap[errs[1]].Err = NilErr
    /\ heap[errs[2]].Err.tag = "errorf"
    /\ FieldDiffs(heap[errs[2]], heap[errs[1]]) = <<>>
    /\ ~Match(heap, Ptr(errs[2]), Ptr(errs[1]))
    /\ IsError(heap[ret].Err)
    /\ Len(Diff(heap, Ptr(ret), Ptr(errs[2]))) >= 2
    /\ Match(heap, Ptr(errs[1]), Ptr(ret))

RECURSIVE OptVariants(_)
RECURSIVE ListVariants(_)
\* The options that differ from o at most in the Text values supplied.
OptVariants(o) ==
    IF o.opt = "WithText" THEN {WithText(v) : v \in TextVals}
    ELSE IF o.opt = "Fields" /\ o.f.Text # ""
    THEN {Fields([o.f EXCEPT !.Text = v]) : v \in TextVals}
    ELSE IF o.opt = "Options" THEN {Options(sub) : sub \in ListVariants(o.sub)}
    ELSE {o}

\* The option lists that differ from opts at most in the Text values.
ListVariants(opts) ==
    IF opts = <<>> THEN {<<>>}
    ELSE {<<o>> \o rest : o \in OptVariants(Head(opts)),
                          rest \in ListVariants(Tail(opts))}

RECURSIVE CallVariants(_)
\* The sequences of E calls that differ from cs at most in the Text values.
CallVariants(cs) ==
    IF cs = <<>> THEN {<<>>}
    ELSE {<<opts>> \o rest : opts \in ListVariants(Head(cs)),
                             rest \in CallVariants(Tail(cs))}

RECURSIVE Replay(_, _)
\* The heap after the E calls cs made one after the other from heap h.
Replay(h, cs) == IF cs = <<>> THEN h ELSE Replay(E(h, Head(cs)), Tail(cs))

\* C19: internal text never reaches the user-facing projections.  Making
\* the same E calls with other Text values gives, for every error
\* returned, the same UserMsg and, where no ToJSON override is set, the
\* same JSON(), which holds code, error and msg and nothing else.
C19_TextNeverLeaks ==
    /\ Replay(<<>>, calls) = heap
    /\ \A cs \in CallVariants(calls) :
           LET h2 == Replay(<<>>, cs)
           IN  \A i \in 1..Len(errs) :
                   /\ UserMsg(h2, Ptr(errs[i])) = UserMsg(heap, Ptr(errs[i]))
                   /\ h2[errs[i]].ToJSON = heap[errs[i]].ToJSON
                   /\ heap[errs[i]].ToJSON = NilJSON =>
                          /\ JSON(h2, errs[i]) = JSON(heap, errs[i])
                          /\ JSON(heap, errs[i]) =
                                 [code |-> OutermostKind(heap, Ptr(errs[i])).Code,
                                  error |-> KindString(OutermostKind(heap, Ptr(errs[i]))),
                                  msg |-> FirstUserMsg(heap, Ptr(errs[i]))]
                          /\ \A f \in DOMAIN JSON(heap, errs[i]) :
                                 JSON(heap, errs[i])[f] \notin TextVals

\* C19 witness: two Text values were supplied, so four sequences of calls
\* differ in them only, and the error returned has a text, a user message
\* and the default JSON().
C19_Witness ==
    /\ Len(errs) = 3
    /\ Cardinality(CallVariants(calls)) = 4
    /\ Replay(<<>>, calls) = heap
    /\ \E cs \in CallVariants(calls) : Replay(<<>>, cs) # heap
    /\ heap[ret].Text # ""
    /\ UserMsg(heap, Ptr(ret)) # ""
    /\ heap[ret].ToJSON = NilJSON

\* The fields of the Error struct a Fields bundle can carry.
BundleFields == ScalarFields \cup {"Err"}

\* The Error under construction and the heap once the first n options of
\* the flattened list of the last call have been applied.
AfterOpts(n) == ApplyAll(call.pre, Error, SubSeq(Flatten(call.opts), 1, n))

\* C20: a Fields bundle applies only its non-zero fields.  Applied to the
\* Error under construction, it leaves every field whose value in the
\* bundle is the zero value as the earlier options left it and sets every
\* other field to the bundle's value, so Fields{} changes nothing.
C20_FieldsFrame ==
    Called =>
        LET flat == Flatten(call.opts)
        IN  /\ AfterOpts(Len(flat)).e = call.e0
            /\ \A n \in 1..Len(flat) :
                   flat[n].opt = "Fields" =>
                       LET f == flat[n].f
                           before == AfterOpts(n - 1)
                           after == AfterOpts(n)
                       IN  /\ after.h = before.h
                           /\ \A F \in BundleFields :
                                  after.e[F] = IF f[F] = Error[F]
                                               THEN before.e[F]
                                               ELSE f[F]
                           /\ f = Error => after.e = before.e

\* C20 witness: E(WithText("msg"), Fields{Op: "Op1", Kind: Internal},
\* Fields{}) over no cause: the bundle set Op and Kind and left the text,
\* and the empty bundle reset nothing.
C20_Witness ==
    /\ Called
    /\ call.opts = <<WithText("msg"),
                     Fields([Error EXCEPT !.Op = "Op1", !.Kind = Internal]),
                     Fields(Error)>>
    /\ AfterOpts(1).e = [Error EXCEPT !.Text = "msg"]
    /\ call.e0 = [Error EXCEPT !.Text = "msg", !.Op = "Op1", !.Kind = Internal]
    /\ heap[ret] = call.e0

\* The addresses of the Errors reached from address a along Err and Unwrap.
Reachable(h, a) ==
    {x.addr : x \in {UnwrapChain(h, Ptr(a))[k] : k \in 1..Len(UnwrapChain(h, Ptr(a)))}} \ {0}

\* C21: no data race on shared errors.  While goroutines wrap the
\* published Error x, nothing is written to x or to an Error reached from
\* x, and what a reader gets from the accessors of x is what they returned
\* when x was published.
C21_NoWriteToShared ==
    shared # 0 =>
        /\ \A a \in Reachable(base, shared) : heap[a] = base[a]
        /\ seen # <<>> => seen[1] = Observe(base, shared)

\* The addresses of the layers at depth two or more below the wrapper of
\* the last call: the cause of its direct cause and everything beneath.
DeeperLayers ==
    IF IsError(CauseBefore.Err)
    THEN {Layers(call.h0, CauseBefore.Err.addr)[k] :
              k \in 1..Depth(call.h0, CauseBefore.Err.addr)}
    ELSE {}

\* C22: promotion is applied once, between the new wrapper and its direct
\* cause.  When E wraps an Error, every layer beneath the direct cause
\* holds after the call what it held before, the record e.Err pointed to
\* is the only record promoteFields wrote, and with WithErr that record is
\* the private copy, so nothing the caller supplied has changed.
C22_PromotionOnce ==
    WrappedError =>
        /\ \A a \in DeeperLayers : heap[a] = call.pre[a] /\ a # CauseAddr
        /\ \A a \in 1..Len(call.h0) : a # CauseAddr => heap[a] = call.h0[a]
        /\ Len(heap) = Len(call.h0) + 1
        /\ CauseAddr > Len(call.pre) =>
               \A a \in 1..Len(call.pre) : heap[a] = call.pre[a]

\* C22 witness: the third call wrapped a two-layer chain and pulled the op
\* of the direct cause up; the layer beneath has an op, and it stayed there.
C22_Witness ==
    /\ Len(errs) = 3
    /\ WrappedError
    /\ DeeperLayers # {}
    /\ CauseBefore.Op # ""
    /\ heap[CauseAddr].Op = ""
    /\ \E a \in DeeperLayers : heap[a].Op # ""

RECURSIVE SubLists(_)
\* The sub-lists of an option list: some options dropped, the order kept.
SubLists(opts) ==
    IF opts = <<>> THEN {<<>>}
    ELSE LET r == SubLists(Tail(opts))
         IN  r \cup {<<Head(opts)>> \o sub : sub \in r}

\* Each field is set by at most one option of the last call.
SetOnce ==
    \A F \in BundleFields : Cardinality(Setters(Flatten(call.opts), F)) <= 1

\* No option of the last call attaches a *Error.
NoErrorCause ==
    \A i \in 1..Len(Flatten(call.opts)) : ~IsError(Flatten(call.opts)[i].f.Err)

\* Match(E(sub...), E(opts...)) evaluated on the heap h, the template first.
MatchDropped(h, sub, opts) ==
    LET h1 == E(h, sub)
        h2 == E(h1, opts)
    IN  Match(h2, Ptr(Len(h1)), Ptr(Len(h2)))

\* C23 as stated: a template may drop options and still match, whatever
\* the cause is.  For the options of the last call, each field set at most
\* once, and every non-empty sub-list of them, Match(E(sub...), E(opts...))
\* is true.
C23_DropOptionsAnyCause ==
    (Called /\ SetOnce) =>
        \A sub \in SubLists(call.opts) \ {<<>>} :
            MatchDropped(call.pre, sub, call.opts)

\* C23 amended: the same when the cause, if any, is a foreign error.
C23_DropOptionsForeignCause ==
    (Called /\ SetOnce /\ NoErrorCause) =>
        \A sub \in SubLists(call.opts) \ {<<>>} :
            MatchDropped(call.pre, sub, call.opts)

\* C23 witness: E(WithOp("Op1"), NotFound, WithErr(errors.New("stoinks")))
\* was called; a template built from two of its three options matches it.
C23_Witness ==
    /\ Called
    /\ call.opts = <<WithOp("Op1"), KindOpt(NotFound), WithErr(New("stoinks"))>>
    /\ SetOnce
    /\ NoErrorCause
    /\ Cardinality(SubLists(call.opts)) = 8
    /\ MatchDropped(call.pre, <<WithOp("Op1"), WithErr(New("stoinks"))>>, call.opts)
    /\ ~MatchDropped(call.pre, call.opts, <<WithOp("Op1")>>)

\* The positions in wire of the events of kind ev.
Events(ev) == {k \in 1..Len(wire) : wire[k].ev = ev}

\* The positions in wire of the writes to the http.ResponseWriter.
Writes == Events("header") \cup Events("status") \cup Events("body")

\* The notifications made with the error supplied to the responder.
Notified == SelectSeq(wire, LAMBDA x : x.ev = "observe" /\ x.err = jr.err)

\* C24: Error and ErrorWithStatus notify every registered ErrObserver
\* exactly once with the supplied error, in registration order, before the
\* status line or any body byte is written; the status written is
\* StatusCode(err) for Error and the status given for ErrorWithStatus, and
\* a call that returns has written it exactly once.
C24_ObserveThenRespond ==
    jr.pc # "idle" =>
        /\ Len(Notified) <= jr.n
        /\ \A k \in 1..Len(Notified) : wire[k] = Observed(k, jr.err)
        /\ (jr.pc # "observe" \/ jr.after = "done") => Len(Notified) = jr.n
        /\ Writes # {} => Len(Notified) = jr.n
        /\ \A k \in Writes : k > jr.n
        /\ Cardinality(Events("status")) <= 1
        /\ \A k \in Events("status") :
               /\ wire[k].n = jr.status
               /\ jr.via = "Error" => wire[k].n = StatusCode(heap, jr.err)
        /\ jr.pc = "done" => Cardinality(Events("status")) = 1

\* C24 witness: Error was called for an Error of kind NotFound with two
\* observers; both were notified, in order, then the header, the status 404
\* and the body were written.
C24_Witness ==
    /\ jr.pc = "done"
    /\ jr.via = "Error"
    /\ jr.n = 2
    /\ jr.err = Ptr(ret)
    /\ heap[ret].Kind = NotFound
    /\ Len(wire) = 5
    /\ wire[1] = Observed(1, Ptr(ret))
    /\ wire[2] = Observed(2, Ptr(ret))
    /\ wire[3] = HeaderSet
    /\ wire[4] = StatusWritten(StatusNotFound)
    /\ wire[5].ev = "body"

\* The errors of the chain of err: err and what Unwrap reaches from it.
Chain(h, err) == {UnwrapChain(h, err)[k] : k \in 1..Len(UnwrapChain(h, err))}

\* The validator is called at most once and only after the inner decoder
\* returned nil; an error of the inner decoder is returned as it is; nil
\* is returned only after both succeeded.
DecodeThenValidate ==
    /\ dec.validated <= 1
    /\ dec.validated = 1 => dec.derr = NilErr /\ dec.pc \in {"wrap", "done"}
    /\ dec.derr # NilErr => dec.validated = 0 /\ dec.pc = "done"
    /\ (dec.pc = "done" /\ dec.derr # NilErr) => dec.result = dec.derr
    /\ (dec.pc = "done" /\ dec.result = NilErr) =>
           dec.derr = NilErr /\ dec.verr = NilErr /\ dec.validated = 1

\* The validation failed and the decoder has returned.
Invalid == dec.pc = "done" /\ dec.derr = NilErr /\ dec.verr # NilErr

\* C25 as stated: the validator runs only after the inner decoder returned
\* nil, a decoding error is returned unchanged, nil means both succeeded,
\* and a failed validation gives an *Error with op
\* "ValidatingDecoderMiddleware" whose chain contains the validation error.
C25_ValidationErrorInChain ==
    /\ DecodeThenValidate
    /\ Invalid =>
           /\ IsError(dec.result)
           /\ heap[dec.result.addr].Op = DecoderOp
           /\ dec.verr \in Chain(heap, dec.result)

\* C25 amended: the same, except that the chain contains the validation
\* error when that is a foreign error; a validation error that is a *Error
\* is not in the chain: the result was built over a copy of it and holds
\* its kind, its user message and, beneath the middleware's op, its ops.
C25_ValidationErrorWrapped ==
    /\ DecodeThenValidate
    /\ Invalid =>
           /\ IsError(dec.result)
           /\ heap[dec.result.addr].Op = DecoderOp
           /\ ~IsError(dec.verr) => dec.verr \in Chain(heap, dec.result)
           /\ IsError(dec.verr) =>
                  /\ dec.verr \notin Chain(heap, dec.result)
                  /\ WhatKind(heap, dec.result) = WhatKind(heap, dec.verr)
                  /\ UserMsg(heap, dec.result) = UserMsg(heap, dec.verr)
                  /\ Ops(heap, dec.result.addr) =
                         <<DecoderOp>> \o Ops(heap, dec.verr.addr)

\* C25 witness: decoding succeeded, the validator returned an Error with a
\* kind and no cause, and the decoder returned an Error with the
\* middleware's op, that kind and no cause.
C25_Witness ==
    /\ Invalid
    /\ dec.validated = 1
    /\ IsError(dec.verr)
    /\ heap[dec.verr.addr] = [Error EXCEPT !.Kind = NotFound]
    /\ heap[dec.result.addr] = [Error EXCEPT !.Op = DecoderOp, !.Kind = NotFound]

\* The fields a transparent wrapper may repeat.
EchoFields == {"Op", "Kind", "Text", "UserMsg"}

\* The wrapper e sets nothing that x does not already hold: its op, kind,
\* text and user message are unset or equal to x's, it has no data and no
\* ToJSON.
Transparent(e, x) ==
    /\ \A F \in EchoFields : e[F] \in {Error[F], x[F]}
    /\ e.Data = NilData
    /\ e.ToJSON = NilJSON

\* The bundle that repeats the fields S of x.
Echo(x, S) == [F \in DOMAIN Error |-> IF F \in S THEN x[F] ELSE Error[F]]

\* C26: transparent re-wrapping.  Wrapping an Error x with a wrapper whose
\* op, kind, text and user message are unset or equal to x's, and which
\* sets no data and no ToJSON, returns an Error equal to x field for field,
\* with no extra layer: so for the last call of E, and for the Error it
\* returned wrapped with any choice of repeated fields, and wrapped once
\* more with WithErr alone.
C26_TransparentRewrap ==
    /\ (WrappedError /\ Transparent(call.e0, CauseBefore)) => heap[ret] = CauseBefore
    /\ Called =>
           \A S \in SUBSET EchoFields :
               LET x == heap[ret]
                   h1 == E(heap, <<Fields(Echo(x, S)), WithErr(Ptr(ret))>>)
                   h2 == E(h1, <<WithErr(Ptr(Len(h1)))>>)
               IN  /\ h1[Len(h1)] = x
                   /\ h2[Len(h2)] = x
                   /\ h1[ret] = x

\* C26 witness: x = E(WithOp("Op1"), WithErr(errors.New("stoinks"))) was
\* wrapped by E(WithOp("Op1"), WithErr(x)); the result is another Error
\* with the fields of x, its cause the foreign error.
C26_Witness ==
    /\ Len(errs) = 2
    /\ call.opts = <<WithOp("Op1"), WithErr(Ptr(errs[1]))>>
    /\ Transparent(call.e0, CauseBefore)
    /\ heap[errs[1]] = [Error EXCEPT !.Op = "Op1", !.Err = New("stoinks")]
    /\ ret # errs[1]
    /\ heap[ret] = heap[errs[1]]

\* The chain of the Error at address a consists of *Error layers only.
OnlyErrors(h, a) == \A x \in Chain(h, Ptr(a)) : IsError(x)

\* The layers beneath the outermost one of the Error at address a.
Nested(h, a) == {walk(h, a)[k] : k \in 2..Len(walk(h, a))}

\* The outermost layer of the Error at address a holds the resolved kind
\* and user message, and where it has no kind, user message, data or
\* ToJSON no layer beneath has one.
Resolved(h, a) ==
    /\ WhatKind(h, Ptr(a)) = h[a].Kind
    /\ UserMsg(h, Ptr(a)) = h[a].UserMsg
    /\ \A F \in {"Kind", "UserMsg", "Data", "ToJSON"} :
           h[a][F] = Error[F] => \A l \in Nested(h, a) : l[F] = Error[F]

Trail(a, xop, xops) == IF a = "" \/ a = xop THEN xops ELSE <<a>> \o xops

\* The options a wrapper may carry besides its op and its cause.
OtherOpts == FieldOpts \ {WithOp(v) : v \in OpVals}

\* C28: wrapping preserves the operation trail.  The Ops() of a wrapper
\* with op a around an Error x is x.Ops() when a is empty or equal to x.Op
\* and a followed by x.Ops() otherwise: so for the last call of E, and for
\* the Error it returned wrapped with any op, or none, and any other option.
C28_OpsTrail ==
    /\ WrappedError =>
           Ops(heap, ret) =
               Trail(call.e0.Op, CauseBefore.Op, Ops(call.h0, CauseAddr))
    /\ Called =>
           \A a \in OpVals \cup {""}, o \in OtherOpts :
               LET opts == (IF a = "" THEN <<>> ELSE <<WithOp(a)>>)
                              \o <<o, WithErr(Ptr(ret))>>
                   h1 == E(heap, opts)
               IN  Ops(h1, Len(h1)) = Trail(a, heap[ret].Op, Ops(heap, ret))

\* C28 witness: E(WithOp("Op2"), WithErr(y)) for y with the trail Op1, Op2
\* has the trail Op2, Op1, Op2.
C28_Witness ==
    /\ Len(errs) = 3
    /\ call.opts = <<WithOp("Op2"), WithErr(Ptr(errs[2]))>>
    /\ Ops(call.pre, errs[2]) = <<"Op1", "Op2">>
    /\ Ops(heap, ret) = <<"Op2", "Op1", "Op2">>

\* The status that follows from the resolved kind of err: the kind's status,
\* and http.StatusInternalServerError where the kind has none.
KindStatus(h, err) ==
    IF WhatKind(h, err).Status # 0 THEN WhatKind(h, err).Status
    ELSE StatusInternalServerError

DefaultBody(h, err) ==
    LET j == AsJSONer(h, err)
        v == JSON(h, j.addr)
    IN  [success |-> FALSE, msg |-> UserMsg(h, err),
         errors |-> IF j = NilErr THEN NilValue
                    ELSE IF "slice" \in DOMAIN v THEN v
                    ELSE [slice |-> <<v>>]]

\* The position of Error/ErrorWithStatus is past convertErrorToBody.
Converted ==
    \/ jr.pc \in {"respond", "header", "encode", "done"}
    \/ jr.pc = "observe" /\ jr.after = "done"

\* With the default conversion, the body handed to RespondWithStatus is
\* DefaultBody of the error.
BodyIsDefault == (Converted /\ jr.f = "nil") => jr.body = DefaultBody(heap, jr.err)

\* C30: Error/ErrorWithStatus never panics in the default body conversion,
\* also for an *Error whose JSON() is nil; the body is {success: false,
\* msg: UserMsg(err), errors: the projection or a list holding it}, and a
\* finished call has written the status.
C30_ConversionNeverFails ==
    /\ jr.pc # "panic"
    /\ BodyIsDefault
    /\ jr.pc = "done" => \E k \in Events("status") : wire[k] = StatusWritten(jr.status)

=============================================================================
